---- MODULE Spec2Model ----
(***************************************************************************)
(* Lagged-feature tabularization of darts/utils/data/tabularization.py:    *)
(* _create_lagged_data (the lag matrix builder) and _add_static_covariates *)
(* (the static covariate appender).                                        *)
(*                                                                         *)
(* A TimeSeries is a run of consecutive integer timestamps (darts series   *)
(* have a regular frequency) with one row of component cells per           *)
(* timestamp.  The code never inspects a value except for being missing,   *)
(* so every non-missing input cell carries a value that identifies the     *)
(* frame, series, component and timestamp it comes from (CellValue).       *)
(* pandas frames are records of an index (timestamps), column labels and   *)
(* rows; numpy arrays are sequences of rows.                               *)
(***************************************************************************)
EXTENDS Integers, Sequences, FiniteSets, TLC

NaN == -1
None == -100
\* An attribute the object does not have (hasattr is false).
Absent == -101

(***************************************************************************)
(* Bounds of the explored inputs.                                          *)
(***************************************************************************)
MaxSeries == 2
MaxLen == 3
MaxLenMulti == 4
MaxLenTarget == 5
MaxCap == 2

(***************************************************************************)
(* Generic helpers.                                                        *)
(***************************************************************************)
Range(s) == {s[i] : i \in DOMAIN s}

Min(a, b) == IF a <= b THEN a ELSE b

Max(a, b) == IF a >= b THEN a ELSE b

Abs(v) == IF v < 0 THEN -v ELSE v

SetMin(S) == CHOOSE x \in S : \A z \in S : x <= z

SetMax(S) == CHOOSE x \in S : \A z \in S : x >= z

RECURSIVE SortSet(_)
SortSet(S) ==
    IF S = {} THEN <<>>
    ELSE LET m == SetMin(S) IN <<m>> \o SortSet(S \ {m})

RECURSIVE Flatten(_)
Flatten(ss) ==
    IF Len(ss) = 0 THEN <<>> ELSE Head(ss) \o Flatten(Tail(ss))

RECURSIVE SumLen(_)
SumLen(ss) ==
    IF Len(ss) = 0 THEN 0 ELSE Len(Head(ss)) + SumLen(Tail(ss))

Positions(n) == [i \in 1..n |-> i]

(***************************************************************************)
(* Input values.  kind: 0 target, 1 past covariates, 2 future covariates.  *)
(* The target of the first series, first component, at timestamp t holds   *)
(* t + 1, so a series starting at 0 reads 1, 2, 3, ...                     *)
(***************************************************************************)
CellValue(kind, s, c, t) == 1000 * kind + 100 * (s - 1) + 10 * (c - 1) + (t + 1)

KindOf(v) == v \div 1000

SeriesOf(v) == ((v % 1000) \div 100) + 1

CompOf(v) == ((v % 100) \div 10) + 1

TimeOf(v) == (v % 10) - 1

\* TimeSeries.static_covariates: None, or a table of named columns with one
\* row for the series or one row per component.
NoStatic == [exists |-> FALSE, columns |-> <<>>, values |-> <<>>]

StaticTable(columns, values) ==
    [exists |-> TRUE, columns |-> columns, values |-> values]

\* A series of n rows starting at timestamp start; cells in nan are missing.
MkSeries(kind, s, start, n, ncomp, nan) ==
    [start |-> start,
     static_covariates |-> NoStatic,
     values |-> [i \in 1..n |->
                   [c \in 1..ncomp |->
                      IF <<i, c>> \in nan THEN NaN
                      ELSE CellValue(kind, s, c, start + i - 1)]]]

n_components(ts) == Len(ts.values[1])

(***************************************************************************)
(* pandas / numpy operations used by the builder.                          *)
(***************************************************************************)
\* TimeSeries.pd_dataframe: index, component names as columns, the values.
pd_dataframe(ts) ==
    [index |-> [i \in 1..Len(ts.values) |-> ts.start + i - 1],
     columns |-> [c \in 1..n_components(ts) |-> <<c>>],
     rows |-> ts.values]

NaNRow(n) == [c \in 1..n |-> NaN]

\* shift with the direction reversed.
shift_reversed(df, periods) ==
    [df EXCEPT !.rows =
        [i \in 1..Len(df.rows) |->
            IF i + periods >= 1 /\ i + periods <= Len(df.rows)
            THEN df.rows[i + periods]
            ELSE NaNRow(Len(df.columns))]]

\* DataFrame.shift(periods): values move down by periods positions.
shift(df, periods) ==
    [df EXCEPT !.rows =
        [i \in 1..Len(df.rows) |->
            IF i - periods >= 1 /\ i - periods <= Len(df.rows)
            THEN df.rows[i - periods]
            ELSE NaNRow(Len(df.columns))]]

\* DataFrame.rename(columns=lambda x: f"{x}_{kind}_lag{lag}")
rename(df, kind, lag) ==
    [df EXCEPT !.columns =
        [c \in 1..Len(df.columns) |-> <<df.columns[c][1], kind, lag>>]]

\* The row of df labelled t, a row of NaN when t is not in df's index.
RowAt(df, t) ==
    IF \E i \in 1..Len(df.index) : df.index[i] = t
    THEN df.rows[CHOOSE i \in 1..Len(df.index) : df.index[i] = t]
    ELSE NaNRow(Len(df.columns))

\* Index.union: the sorted union.
index_union(a, b) == SortSet(Range(a) \cup Range(b))

\* DataFrame.reindex(new_index)
reindex(df, new_index) ==
    [df EXCEPT !.index = new_index,
               !.rows = [i \in 1..Len(new_index) |-> RowAt(df, new_index[i])]]

\* pd.concat(dfs, axis=1) of a non-empty list: outer join on the sorted
\* union of the indexes, columns side by side.
pd_concat(dfs) ==
    LET index == SortSet(UNION {Range(dfs[k].index) : k \in 1..Len(dfs)})
    IN [index |-> index,
        columns |-> Flatten([k \in 1..Len(dfs) |-> dfs[k].columns]),
        rows |-> [i \in 1..Len(index) |->
                    Flatten([k \in 1..Len(dfs) |-> RowAt(dfs[k], index[i])])]]

\* DataFrame.dropna(subset=labels): drop the rows with a missing value in a
\* column whose label is in labels.
dropna(df, labels) ==
    LET ok(i) == \A c \in 1..Len(df.columns) :
                    df.columns[c] \in labels => df.rows[i][c] # NaN
        keep == SelectSeq(Positions(Len(df.rows)), ok)
    IN [df EXCEPT !.index = [j \in 1..Len(keep) |-> df.index[keep[j]]],
                  !.rows = [j \in 1..Len(keep) |-> df.rows[keep[j]]]]

\* a[:n], the oldest rows.
FirstN(a, n) == [j \in 1..Min(n, Len(a)) |-> a[j]]

\* a[-n:] for n > 0
LastN(a, n) ==
    LET first == Max(Len(a) - n, 0) + 1
    IN [j \in 1..(Len(a) - first + 1) |-> a[first + j - 1]]

\* np.split(a, [k], axis=1)
SplitLeft(a, k) == [i \in 1..Len(a) |-> SubSeq(a[i], 1, k)]

SplitRight(a, k) == [i \in 1..Len(a) |-> SubSeq(a[i], k + 1, Len(a[i]))]

(***************************************************************************)
(* State: the arguments of one call of _create_lagged_data, the builder's  *)
(* position (pc, idx), its accumulators Xs, ys, Ts, the array X_y of the   *)
(* series in work, and its results X, y or the message of its error; then  *)
(* for the call of _add_static_covariates on the returned X with the same  *)
(* series: the model's n_features_in_, scovs_map, col_names, static_covs   *)
(* and the returned array.                                                 *)
(* An absent (None) covariate list or lag list is the empty sequence: the  *)
(* builder tests both by truthiness.                                       *)
(***************************************************************************)
VARIABLES target_series, past_covariates, future_covariates,
          lags, lags_past_covariates, lags_future_covariates,
          output_chunk_length, max_samples_per_ts, is_training, multi_models,
          pc, idx, Xs, ys, Ts, X_y, X, y, message,
          n_features_in_, scovs_map, col_names, static_covs, result

appender == <<n_features_in_, scovs_map, col_names, static_covs, result>>

args == <<target_series, past_covariates, future_covariates,
          lags, lags_past_covariates, lags_future_covariates,
          output_chunk_length, max_samples_per_ts, is_training, multi_models>>

vars == <<args, pc, idx, Xs, ys, Ts, X_y, X, y, message, appender>>

(***************************************************************************)
(* _create_lagged_data: the body of the loop for target series target_ts,  *)
(* the series at position i (from 0) of the collection.                    *)
(***************************************************************************)
df_target(target_ts) == pd_dataframe(target_ts)

\* The single block is shifted by the whole output_chunk_length.
df_y_list_of_shifted_by_length(target_ts, multi) ==
    IF multi
    THEN [j \in 1..output_chunk_length |->
            rename(shift(df_target(target_ts), -(j - 1)), "horizon", j - 1)]
    ELSE <<rename(shift(df_target(target_ts), -output_chunk_length),
                  "horizon", output_chunk_length - 1)>>

\* y: output chunk length lags of target, for a value multi of multi_models
df_y_list_of(target_ts, multi) ==
    IF multi
    THEN [j \in 1..output_chunk_length |->
            rename(shift(df_target(target_ts), -(j - 1)), "horizon", j - 1)]
    ELSE <<rename(shift(df_target(target_ts), -output_chunk_length + 1),
                  "horizon", output_chunk_length - 1)>>

df_y_list(target_ts) == df_y_list_of(target_ts, multi_models)

target_lag_frames(target_ts) ==
    [j \in 1..Len(lags) |->
        rename(shift(df_target(target_ts), -lags[j]), "target", lags[j])]

\* X: covariate lags
cov_lag_frames(target_ts, i, covs, lags_cov, covariate_name) ==
    IF Len(lags_cov) = 0 THEN <<>>
    ELSE LET df == pd_dataframe(covs[i + 1])
             df_cov == IF ~is_training
                       THEN reindex(df, index_union(df_target(target_ts).index,
                                                    df.index))
                       ELSE df
         IN [j \in 1..Len(lags_cov) |->
                rename(shift(df_cov, -lags_cov[j]), covariate_name, lags_cov[j])]

\* The covariate groups before the target group.
df_X_list_covariates_first(target_ts, i) ==
    cov_lag_frames(target_ts, i, past_covariates,
                   lags_past_covariates, "past_cov")
    \o cov_lag_frames(target_ts, i, future_covariates,
                      lags_future_covariates, "future_cov")
    \o target_lag_frames(target_ts)

df_X_list(target_ts, i) ==
    target_lag_frames(target_ts)
    \o cov_lag_frames(target_ts, i, past_covariates,
                      lags_past_covariates, "past_cov")
    \o cov_lag_frames(target_ts, i, future_covariates,
                      lags_future_covariates, "future_cov")

df_X(target_ts, i) == pd_concat(df_X_list(target_ts, i))

df_y_of(target_ts, multi) == pd_concat(df_y_list_of(target_ts, multi))

df_y(target_ts) == pd_concat(df_y_list(target_ts))

\* Rows are dropped on the feature columns in both modes.
df_X_y_features_only(target_ts, i) ==
    LET both == pd_concat(<<df_X(target_ts, i), df_y(target_ts)>>)
    IN dropna(both, Range(df_X(target_ts, i).columns))

\* Rows are dropped on all columns in both modes.
df_X_y_all_columns(target_ts, i) ==
    LET both == pd_concat(<<df_X(target_ts, i), df_y(target_ts)>>)
    IN dropna(both, Range(both.columns))

\* combine lags and drop the rows with missing values, for a value multi
\* of multi_models
df_X_y_of(target_ts, i, multi) ==
    LET both == pd_concat(<<df_X(target_ts, i), df_y_of(target_ts, multi)>>)
    IN IF is_training
       THEN dropna(both, Range(both.columns))
       ELSE dropna(both, Range(df_X(target_ts, i).columns))

df_X_y(target_ts, i) == df_X_y_of(target_ts, i, multi_models)

\* keep most recent max_samples_per_ts samples: X_y[-max_samples_per_ts:]
KeepRecentRows(a) ==
    IF max_samples_per_ts # None THEN LastN(a, max_samples_per_ts) ELSE a

\* The index is left as it was.
KeepRecentIndex_untrimmed(index) == index

\* Ts[-1][-max_samples_per_ts:]
KeepRecentIndex(index) ==
    IF max_samples_per_ts # None THEN LastN(index, max_samples_per_ts) ELSE index

\* The message names the index whatever the number of series.
raise_message_always_index(n_series, i) ==
    <<"Unable to build any training samples of the target series", "at index", i>>

\* The message of raise_if for the series at position i of n_series.
raise_message(n_series, i) ==
    <<"Unable to build any training samples of the target series">>
    \o (IF n_series > 1 THEN <<"at index", i>> ELSE <<>>)

\* The arrays in reverse order.
np_concatenate_reversed(arrays) ==
    Flatten([k \in 1..Len(arrays) |-> arrays[Len(arrays) + 1 - k]])

\* np.concatenate(arrays, axis=0)
np_concatenate(arrays) == Flatten(arrays)

\* Calls that end in an exception of pandas or Python before any row is
\* counted: a lag list whose covariates are None (None has no shift or
\* reindex), or no lag list at all (pd.concat of an empty list).
Malformed ==
    \/ Len(lags_past_covariates) > 0 /\ Len(past_covariates) = 0
    \/ Len(lags_future_covariates) > 0 /\ Len(future_covariates) = 0
    \/ Len(lags) + Len(lags_past_covariates) + Len(lags_future_covariates) = 0

\* Lines 72-141: shift, combine, drop the incomplete rows, record the index.
AlignSeries ==
    /\ pc = "loop"
    /\ idx < Len(target_series)
    /\ ~Malformed
    /\ LET df == df_X_y(target_series[idx + 1], idx)
       IN /\ Ts' = Append(Ts, df.index)
          /\ X_y' = df.rows
    /\ pc' = "aligned"
    /\ UNCHANGED <<args, idx, Xs, ys, X, y, message, appender>>

\* Lines 143-159 when raise_if does not raise: cap, split, append.
SplitSeries ==
    /\ pc = "aligned"
    /\ LET rows == KeepRecentRows(X_y)
           n_X == Len(df_X(target_series[idx + 1], idx).columns)
       IN /\ Len(rows) # 0
          /\ X_y' = rows
          /\ Ts' = [Ts EXCEPT ![Len(Ts)] = KeepRecentIndex(Ts[Len(Ts)])]
          /\ Xs' = Append(Xs, SplitLeft(rows, n_X))
          /\ ys' = Append(ys, SplitRight(rows, n_X))
    /\ idx' = idx + 1
    /\ pc' = "loop"
    /\ UNCHANGED <<args, X, y, message, appender>>

\* Lines 143-154 when raise_if(X_y.shape[0] == 0, ...) raises.
RaiseEmpty ==
    /\ pc = "aligned"
    /\ LET rows == KeepRecentRows(X_y)
       IN /\ Len(rows) = 0
          /\ X_y' = rows
          /\ Ts' = [Ts EXCEPT ![Len(Ts)] = KeepRecentIndex(Ts[Len(Ts)])]
    /\ pc' = "raised"
    /\ message' = raise_message(Len(target_series), idx)
    /\ UNCHANGED <<args, idx, Xs, ys, X, y, appender>>

RaiseMalformed ==
    /\ pc = "loop"
    /\ idx < Len(target_series)
    /\ Malformed
    /\ pc' = "crashed"
    /\ UNCHANGED <<args, idx, Xs, ys, Ts, X_y, X, y, message, appender>>

\* combine samples from all series
Concatenate ==
    /\ pc = "loop"
    /\ idx = Len(target_series)
    /\ X' = np_concatenate(Xs)
    /\ y' = np_concatenate(ys)
    /\ pc' = "returned"
    /\ UNCHANGED <<args, idx, Xs, ys, Ts, X_y, message, appender>>

BuilderNext ==
    AlignSeries \/ SplitSeries \/ RaiseEmpty \/ RaiseMalformed \/ Concatenate

(***************************************************************************)
(* Calls.  A call is a record of the arguments.                            *)
(***************************************************************************)
InitModelCall(c, n_features) ==
    /\ n_features_in_ = n_features
    /\ scovs_map = [covs_exist |-> FALSE, df |-> <<>>, reps |-> <<>>, names |-> {}]
    /\ col_names = <<>>
    /\ static_covs = <<>>
    /\ result = <<>>
    /\ target_series = c.target_series
    /\ past_covariates = c.past_covariates
    /\ future_covariates = c.future_covariates
    /\ lags = c.lags
    /\ lags_past_covariates = c.lags_past_covariates
    /\ lags_future_covariates = c.lags_future_covariates
    /\ output_chunk_length = c.output_chunk_length
    /\ max_samples_per_ts = c.max_samples_per_ts
    /\ is_training = c.is_training
    /\ multi_models = c.multi_models
    /\ pc = "loop"
    /\ idx = 0
    /\ Xs = <<>>
    /\ ys = <<>>
    /\ Ts = <<>>
    /\ X_y = <<>>
    /\ X = <<>>
    /\ y = <<>>
    /\ message = <<>>

InitCall(c) == InitModelCall(c, None)

Cells(n, ncomp) == (1..n) \X (1..ncomp)

\* Single series, target lags only, every pattern of missing values.
TargetSeriesSet ==
    UNION {{MkSeries(0, 1, 0, n, 1, nan) : nan \in SUBSET Cells(n, 1)} :
             n \in 1..MaxLenTarget}
    \cup UNION {{MkSeries(0, 1, 0, n, 2, nan) : nan \in SUBSET Cells(n, 2)} :
                  n \in 1..MaxLen}

TargetOnlyCalls ==
    [target_series : {<<ts>> : ts \in TargetSeriesSet},
     past_covariates : {<<>>},
     future_covariates : {<<>>},
     lags : {<<>>, <<-1>>, <<-2, -1>>, <<-1, -2>>, <<-3>>, <<1>>, <<0, -1>>},
     lags_past_covariates : {<<>>},
     lags_future_covariates : {<<>>},
     output_chunk_length : 1..2,
     max_samples_per_ts : {None},
     is_training : BOOLEAN,
     multi_models : BOOLEAN]

InitTarget == \E c \in TargetOnlyCalls : InitCall(c)

SpecTarget == InitTarget /\ [][BuilderNext]_vars

(***************************************************************************)
(* C4: for a single series, every retained row with timestamp t holds, in  *)
(* the X column of target lag L, the target's value at timestamp t + L,    *)
(* and in the y column of horizon step k the target's value at t + k (a    *)
(* missing value where the target has none).  For the values 1..5 at       *)
(* timestamps 0..4, lags [-1], horizon 1, multi-step, training: X = 1..4,  *)
(* y = 2..5, timestamps 1..4.                                              *)
(***************************************************************************)
\* The value of component c of series ts at timestamp t, by timestamp.
ValueAt(ts, t, c) ==
    IF t >= ts.start /\ t < ts.start + Len(ts.values)
    THEN ts.values[t - ts.start + 1][c]
    ELSE NaN

HorizonSteps ==
    IF multi_models THEN [j \in 1..output_chunk_length |-> j - 1]
    ELSE <<output_chunk_length - 1>>

RowsShifted ==
    pc = "returned" /\ Len(target_series) = 1 =>
        LET ts == target_series[1]
            nc == n_components(ts)
        IN /\ Len(X) = Len(Ts[1])
           /\ Len(y) = Len(Ts[1])
           /\ \A r \in 1..Len(Ts[1]) : \A c \in 1..nc :
                /\ \A j \in 1..Len(lags) :
                     /\ X[r][(j - 1) * nc + c] = ValueAt(ts, Ts[1][r] + lags[j], c)
                     /\ X[r][(j - 1) * nc + c] # NaN
                /\ Len(y[r]) = Len(HorizonSteps) * nc
                /\ \A k \in 1..Len(HorizonSteps) :
                     y[r][(k - 1) * nc + c] = ValueAt(ts, Ts[1][r] + HorizonSteps[k], c)

EndToEndCase ==
    /\ target_series = <<MkSeries(0, 1, 0, 5, 1, {})>>
    /\ lags = <<-1>>
    /\ output_chunk_length = 1
    /\ multi_models
    /\ is_training
    /\ pc = "returned"

C4_RowAlignment ==
    /\ RowsShifted
    /\ EndToEndCase =>
         /\ target_series[1].values = <<<<1>>, <<2>>, <<3>>, <<4>>, <<5>>>>
         /\ X = <<<<1>>, <<2>>, <<3>>, <<4>>>>
         /\ y = <<<<2>>, <<3>>, <<4>>, <<5>>>>
         /\ Ts = <<<<1, 2, 3, 4>>>>

C4_Witness ==
    /\ EndToEndCase
    /\ X = <<<<1>>, <<2>>, <<3>>, <<4>>>>

C4_WitnessLags ==
    /\ pc = "returned"
    /\ lags = <<-2, -1>>
    /\ output_chunk_length = 2
    /\ multi_models
    /\ ~is_training
    /\ Len(X) >= 2
    /\ \E r \in 1..Len(y) : y[r][2] = NaN

(***************************************************************************)
(* Single-series calls with covariates: covariate indexes start before, at *)
(* or after the target's, one or two components, missing values in every   *)
(* frame, no sample cap.                                                   *)
(***************************************************************************)
Targets1 ==
    UNION {{MkSeries(0, 1, 0, n, 1, nan) : nan \in SUBSET Cells(n, 1)} :
             n \in 1..MaxLen}

Targets2 ==
    {MkSeries(0, 1, 0, MaxLen, 2, nan) :
        nan \in {{}} \cup {{cell} : cell \in Cells(MaxLen, 2)}}

CovSeriesSet(kind) ==
    {MkSeries(kind, 1, start, n, 1, nan) :
        start \in {-1, 0, 1}, n \in {MaxLen - 1, MaxLen},
        nan \in {{}, {<<1, 1>>}, {<<MaxLen - 1, 1>>}}}
    \cup {MkSeries(kind, 1, start, MaxLen, 2, {}) : start \in {-1, 0, 1}}

TargetsFew ==
    {MkSeries(0, 1, 0, MaxLen, nc, nan) :
        nc \in 1..2, nan \in {{}, {<<MaxLen, 1>>}}}

CovSeriesFew(kind) ==
    {MkSeries(kind, 1, start, MaxLen, nc, nan) :
        start \in {-1, 0, 1}, nc \in 1..2, nan \in {{}, {<<1, 1>>}}}

\* A target at timestamps GapStart.., with covariates that end before it
\* and covariates that start after it, next to it or one timestamp apart.
GapStart == 3

TargetLate == MkSeries(0, 1, GapStart, MaxLen - 1, 1, {})

CovSeriesBefore ==
    {MkSeries(1, 1, start, GapStart - 1 - start, 1, {}) : start \in 0..1}
    \cup {MkSeries(1, 1, start, GapStart - start, 1, {}) : start \in 0..1}

CovSeriesAfter ==
    {MkSeries(2, 1, GapStart + MaxLen - 1 + gap, 2, 1, {}) : gap \in 0..1}

\* (output_chunk_length, multi_models, is_training)
Modes == {<<1, TRUE>>, <<2, TRUE>>, <<2, FALSE>>} \X BOOLEAN

Call(ts, past, future, l, lp, lf, mode, cap) ==
    [target_series |-> ts, past_covariates |-> past, future_covariates |-> future,
     lags |-> l, lags_past_covariates |-> lp, lags_future_covariates |-> lf,
     output_chunk_length |-> mode[1][1], multi_models |-> mode[1][2],
     is_training |-> mode[2], max_samples_per_ts |-> cap]

InitSingle ==
    \/ \E ts \in Targets1 \cup Targets2 :
       \E l \in {<<-1>>, <<-2, -1>>, <<1>>, <<>>}, m \in Modes :
          InitCall(Call(<<ts>>, <<>>, <<>>, l, <<>>, <<>>, m, None))
    \/ \E ts \in Targets1 \cup Targets2, p \in CovSeriesSet(1) :
       \E ll \in {<<<<-1>>, <<-1>>>>, <<<<>>, <<-2, -1>>>>, <<<<-1>>, <<>>>>},
          m \in Modes :
          InitCall(Call(<<ts>>, <<p>>, <<>>, ll[1], ll[2], <<>>, m, None))
    \/ \E ts \in Targets1 \cup Targets2, f \in CovSeriesSet(2) :
       \E ll \in {<<<<-1>>, <<-1, 1>>>>, <<<<>>, <<0>>>>}, m \in Modes :
          InitCall(Call(<<ts>>, <<>>, <<f>>, ll[1], <<>>, ll[2], m, None))
    \/ \E ts \in TargetsFew, p \in CovSeriesFew(1), f \in CovSeriesFew(2) :
       \E ll \in {<<<<-1>>, <<-1>>, <<0, 1>>>>, <<<<-1, -2>>, <<-2>>, <<1, -1>>>>},
          m \in Modes :
          InitCall(Call(<<ts>>, <<p>>, <<f>>, ll[1], ll[2], ll[3], m, None))
    \/ \E ts \in TargetsFew, m \in Modes :
          InitCall(Call(<<ts>>, <<>>, <<>>, <<-1>>, <<-1>>, <<>>, m, None))
    \/ \E p \in CovSeriesBefore, f \in CovSeriesAfter :
       \E ll \in {<<<<-1>>, <<-2>>, <<>>>>, <<<<-1>>, <<-1, -2>>, <<>>>>,
                  <<<<>>, <<-2>>, <<>>>>, <<<<-1>>, <<>>, <<2>>>>,
                  <<<<-1>>, <<-2>>, <<1, 2>>>>},
          m \in Modes :
          InitCall(Call(<<TargetLate>>, <<p>>, <<f>>, ll[1], ll[2], ll[3], m, None))

SpecSingle == InitSingle /\ [][BuilderNext]_vars

(***************************************************************************)
(* The cells a row at timestamp t needs, read from the input series by     *)
(* timestamp.  A frame shifted by a lag keeps its index, so the cell of    *)
(* lag L at row t is present when t is a timestamp of the series and the   *)
(* series has a value at t + L.                                            *)
(***************************************************************************)
SeriesIndex(ts) == {ts.start + i - 1 : i \in 1..Len(ts.values)}

LagCellsPresent(ts, lags_ts, t) ==
    \A j \in 1..Len(lags_ts) : \A c \in 1..n_components(ts) :
        /\ t \in SeriesIndex(ts)
        /\ ValueAt(ts, t + lags_ts[j], c) # NaN

FeaturesPresent(i, t) ==
    /\ LagCellsPresent(target_series[i], lags, t)
    /\ Len(lags_past_covariates) > 0 =>
          LagCellsPresent(past_covariates[i], lags_past_covariates, t)
    /\ Len(lags_future_covariates) > 0 =>
          LagCellsPresent(future_covariates[i], lags_future_covariates, t)

TargetsPresent(i, t) == LagCellsPresent(target_series[i], HorizonSteps, t)

\* The timestamps of the rows of the combined table of series i.
TableIndex(i) ==
    SeriesIndex(target_series[i])
    \cup (IF Len(lags_past_covariates) > 0
          THEN SeriesIndex(past_covariates[i]) ELSE {})
    \cup (IF Len(lags_future_covariates) > 0
          THEN SeriesIndex(future_covariates[i]) ELSE {})

Increasing(s) == \A i \in 1..(Len(s) - 1) : s[i] < s[i + 1]

NoNaN(rows) == \A r \in 1..Len(rows) : \A c \in 1..Len(rows[r]) : rows[r][c] # NaN

(***************************************************************************)
(* C2: in training mode the rows retained before capping are exactly the   *)
(* timestamps of the table at which every lagged feature cell and every    *)
(* target cell is present: no retained row holds a missing value and no    *)
(* complete row is dropped.                                                *)
(***************************************************************************)
TrainingKeepsCompleteRows ==
    pc = "aligned" /\ is_training =>
        /\ Range(Ts[idx + 1]) =
              {t \in TableIndex(idx + 1) :
                  FeaturesPresent(idx + 1, t) /\ TargetsPresent(idx + 1, t)}
        /\ Increasing(Ts[idx + 1])
        /\ Len(X_y) = Len(Ts[idx + 1])
        /\ NoNaN(X_y)

\* The same series without its missing values.
WithoutMissing(ts) ==
    MkSeries(0, 1, ts.start, Len(ts.values), n_components(ts), {})

\* A series whose only missing value is at its last timestamp, target lags
\* [-1], horizon 1, training mode, aligned.
MissingLastCase ==
    /\ pc = "aligned"
    /\ is_training
    /\ lags = <<-1>>
    /\ Len(lags_past_covariates) = 0
    /\ Len(lags_future_covariates) = 0
    /\ output_chunk_length = 1
    /\ LET ts == target_series[idx + 1]
           n == Len(ts.values)
       IN /\ \E c \in 1..n_components(ts) : ts.values[n][c] = NaN
          /\ \A i \in 1..(n - 1) : \A c \in 1..n_components(ts) :
                ts.values[i][c] # NaN

OneRowFewer ==
    Len(Ts[idx + 1]) =
        Len(df_X_y(WithoutMissing(target_series[idx + 1]), idx).index) - 1

\* The claim as stated: for every length n.
C2_AsStated ==
    /\ TrainingKeepsCompleteRows
    /\ MissingLastCase => OneRowFewer

\* Amended: for every length n >= 2.
C2_TrainingRows ==
    /\ TrainingKeepsCompleteRows
    /\ MissingLastCase /\ Len(target_series[idx + 1].values) >= 2 => OneRowFewer

C2_Witness ==
    /\ MissingLastCase
    /\ Len(target_series[idx + 1].values) = 3
    /\ Len(Ts[idx + 1]) = 1

C2_WitnessCovariates ==
    /\ pc = "aligned"
    /\ is_training
    /\ Len(lags_past_covariates) > 0
    /\ Len(Ts[1]) >= 1
    /\ Len(Ts[1]) < Cardinality(TableIndex(1)) - 2
    /\ \E t \in SeriesIndex(target_series[1]) :
          /\ TargetsPresent(1, t)
          /\ LagCellsPresent(target_series[1], lags, t)
          /\ ~FeaturesPresent(1, t)

(***************************************************************************)
(* C3: in inference mode a row of the combined table is dropped if and     *)
(* only if one of its feature cells is missing; a missing target cell      *)
(* never removes a row.  With the last value of the series missing, lags   *)
(* [-1], horizon 1, the row at the last timestamp, whose feature is        *)
(* present, is retained.                                                   *)
(***************************************************************************)
\* The combined table of the series in work before any row is dropped.
CombinedTable ==
    pd_concat(<<df_X(target_series[idx + 1], idx), df_y(target_series[idx + 1])>>)

FeatureWidth == Len(df_X(target_series[idx + 1], idx).columns)

InferenceDropsOnFeaturesOnly ==
    pc = "aligned" /\ ~is_training =>
        LET table == CombinedTable
            kept == {r \in 1..Len(table.rows) :
                        \A c \in 1..FeatureWidth : table.rows[r][c] # NaN}
        IN /\ Range(Ts[idx + 1]) = {table.index[r] : r \in kept}
           /\ Increasing(Ts[idx + 1])
           /\ Len(X_y) = Len(Ts[idx + 1])
           /\ \A r \in 1..Len(X_y) : X_y[r] = RowAt(table, Ts[idx + 1][r])

LastTimestamp(ts) == ts.start + Len(ts.values) - 1

MissingLastInferenceCase ==
    /\ pc = "aligned"
    /\ ~is_training
    /\ lags = <<-1>>
    /\ Len(lags_past_covariates) = 0
    /\ Len(lags_future_covariates) = 0
    /\ output_chunk_length = 1
    /\ LET ts == target_series[idx + 1]
       IN /\ \E c \in 1..n_components(ts) :
                ValueAt(ts, LastTimestamp(ts), c) = NaN
          /\ LagCellsPresent(ts, lags, LastTimestamp(ts))

C3_InferenceRows ==
    /\ InferenceDropsOnFeaturesOnly
    /\ MissingLastInferenceCase =>
          /\ Len(Ts[idx + 1]) > 0
          /\ Ts[idx + 1][Len(Ts[idx + 1])] = LastTimestamp(target_series[idx + 1])
          /\ \E c \in DOMAIN X_y[Len(X_y)] : X_y[Len(X_y)][c] = NaN

C3_Witness ==
    /\ MissingLastInferenceCase
    /\ Len(target_series[idx + 1].values) = 3
    /\ Ts[idx + 1] = <<1, 2>>

(***************************************************************************)
(* C8: the columns of X are the target-lag columns, then the past-         *)
(* covariate-lag columns, then the future-covariate-lag columns; in each   *)
(* group by lag in the order of the lag list and within a lag by           *)
(* component.  A group without lag list has no column, the column count is *)
(* the sum of lags times components, and X and y split at that boundary.   *)
(***************************************************************************)
\* <<kind, component, lag>> of the columns one group contributes.
GroupLayout(kind, series, lags_of, i) ==
    IF Len(lags_of) = 0 THEN <<>>
    ELSE LET nc == n_components(series[i])
         IN [p \in 1..(Len(lags_of) * nc) |->
                <<kind, ((p - 1) % nc) + 1, lags_of[((p - 1) \div nc) + 1]>>]

ExpectedLayout(i) ==
    GroupLayout(0, target_series, lags, i)
    \o GroupLayout(1, past_covariates, lags_past_covariates, i)
    \o GroupLayout(2, future_covariates, lags_future_covariates, i)

ExpectedWidth(i) ==
    Len(lags) * n_components(target_series[i])
    + (IF Len(lags_past_covariates) > 0
       THEN Len(lags_past_covariates) * n_components(past_covariates[i]) ELSE 0)
    + (IF Len(lags_future_covariates) > 0
       THEN Len(lags_future_covariates) * n_components(future_covariates[i]) ELSE 0)

KindName(kind) ==
    IF kind = 0 THEN "target" ELSE IF kind = 1 THEN "past_cov" ELSE "future_cov"

C8_ColumnLayout ==
    pc = "returned" /\ Len(target_series) = 1 =>
        LET layout == ExpectedLayout(1)
            labels == df_X(target_series[1], 0).columns
        IN /\ Len(layout) = ExpectedWidth(1)
           /\ labels = [p \in 1..Len(layout) |->
                          <<layout[p][2], KindName(layout[p][1]), layout[p][3]>>]
           /\ \A r \in 1..Len(X) :
                /\ Len(X[r]) = ExpectedWidth(1)
                /\ \A p \in 1..Len(X[r]) :
                     /\ X[r][p] # NaN
                     /\ KindOf(X[r][p]) = layout[p][1]
                     /\ CompOf(X[r][p]) = layout[p][2]
                     /\ is_training => TimeOf(X[r][p]) = Ts[1][r] + layout[p][3]
                /\ Len(y[r]) = Len(HorizonSteps) * n_components(target_series[1])
                /\ \A p \in 1..Len(y[r]) :
                     y[r][p] # NaN =>
                        /\ KindOf(y[r][p]) = 0
                        /\ CompOf(y[r][p]) =
                              ((p - 1) % n_components(target_series[1])) + 1

C8_Witness ==
    /\ pc = "returned"
    /\ lags = <<-1, -2>>
    /\ lags_past_covariates = <<-2>>
    /\ lags_future_covariates = <<1, -1>>
    /\ n_components(target_series[1]) = 2
    /\ n_components(past_covariates[1]) = 1
    /\ n_components(future_covariates[1]) = 2
    /\ Len(X) >= 1
    /\ Len(X[1]) = 9

(***************************************************************************)
(* Calls with one to MaxSeries series, with and without sample cap.        *)
(***************************************************************************)
\* <<length, missing cells>> of a target series.
Shapes ==
    {<<n, {}>> : n \in 1..MaxLenMulti}
    \cup {<<MaxLenMulti, {<<1, 1>>}>>, <<MaxLenMulti, {<<MaxLenMulti, 1>>}>>}

Caps == {None} \cup 1..MaxCap

InitMulti ==
    \E n \in 1..MaxSeries :
        \/ \E shape \in [1..n -> Shapes] :
           \E ll \in {<<<<-1>>, 1>>, <<<<-2, -1>>, 1>>, <<<<-1>>, 2>>},
              training \in BOOLEAN, cap \in Caps :
              InitCall(Call([s \in 1..n |->
                               MkSeries(0, s, 0, shape[s][1], 1, shape[s][2])],
                            <<>>, <<>>, ll[1], <<>>, <<>>,
                            <<<<ll[2], TRUE>>, training>>, cap))
        \/ \E len \in [1..n -> 1..MaxLenMulti], start \in [1..n -> {0, 1}] :
           \E training \in BOOLEAN, cap \in Caps :
              InitCall(Call([s \in 1..n |-> MkSeries(0, s, 0, len[s], 1, {})],
                            [s \in 1..n |-> MkSeries(1, s, start[s], MaxLenMulti, 1, {})],
                            <<>>, <<-1>>, <<-1>>, <<>>,
                            <<<<1, TRUE>>, training>>, cap))
        \/ \E lp \in {<<>>, <<-1>>} :
              InitCall(Call([s \in 1..n |-> MkSeries(0, s, 0, MaxLenMulti, 1, {})],
                            <<>>, <<>>, <<>>, lp, <<>>,
                            <<<<1, TRUE>>, TRUE>>, None))

SpecMulti == InitMulti /\ [][BuilderNext]_vars

(***************************************************************************)
(* C1: each series contributes the same number of rows to X, to y and to   *)
(* its timestamp index, and the returned X and y have as many rows as the  *)
(* returned indexes have timestamps together.                              *)
(***************************************************************************)
C1_RowCounts ==
    /\ pc \in {"loop", "returned"} =>
          /\ Len(Xs) = Len(Ts)
          /\ Len(ys) = Len(Ts)
          /\ \A j \in 1..Len(Ts) :
                /\ Len(Xs[j]) = Len(Ts[j])
                /\ Len(ys[j]) = Len(Ts[j])
    /\ pc = "returned" =>
          /\ Len(Ts) = Len(target_series)
          /\ Len(X) = SumLen(Ts)
          /\ Len(y) = SumLen(Ts)

C1_Witness ==
    /\ pc = "returned"
    /\ Len(target_series) = 2
    /\ max_samples_per_ts = 1
    /\ Len(X) = 2
    /\ Len(df_X_y(target_series[1], 0).index) = 3

(***************************************************************************)
(* C5: with max_samples_per_ts = N and M rows left after the filtering, a  *)
(* series contributes the min(N, M) most recent of these rows, in          *)
(* chronological order, X, y and the index trimmed alike; the cap acts on  *)
(* each series before the concatenation.                                   *)
(***************************************************************************)
\* The last k elements of a.
MostRecent(a, k) == SubSeq(a, Len(a) - k + 1, Len(a))

CapStep ==
    pc = "aligned" /\ max_samples_per_ts # None /\ pc' # "aligned" =>
        LET k == Min(max_samples_per_ts, Len(X_y))
            n_X == Len(df_X(target_series[idx + 1], idx).columns)
        IN /\ Len(Ts') = Len(Ts)
           /\ Ts'[Len(Ts)] = MostRecent(Ts[Len(Ts)], k)
           /\ Increasing(Ts'[Len(Ts)])
           /\ X_y' = MostRecent(X_y, k)
           /\ pc' = "loop" =>
                /\ Xs'[Len(Ts)] = SplitLeft(MostRecent(X_y, k), n_X)
                /\ ys'[Len(Ts)] = SplitRight(MostRecent(X_y, k), n_X)
                /\ \A j \in 1..(Len(Ts) - 1) :
                      Xs'[j] = Xs[j] /\ ys'[j] = ys[j] /\ Ts'[j] = Ts[j]

\* Rows series j (from 1) has left after the filtering.
FilteredRows(j) == Len(df_X_y(target_series[j], j - 1).index)

CapPerSeries ==
    pc = "returned" /\ max_samples_per_ts # None =>
        /\ \A j \in 1..Len(Ts) :
              Len(Ts[j]) = Min(max_samples_per_ts, FilteredRows(j))
        /\ Len(X) = SumLen(Ts)

C5_SampleCap == [][CapStep]_vars /\ [](CapPerSeries)

C5_Witness ==
    /\ pc = "returned"
    /\ max_samples_per_ts = 2
    /\ Len(target_series) = 2
    /\ FilteredRows(1) = 3
    /\ FilteredRows(2) = 1
    /\ Ts = <<<<2, 3>>, <<1>>>>

(***************************************************************************)
(* C6: the empty-sample-set error is raised if and only if some series has *)
(* no row left after shifting, filtering and capping; then no matrix is    *)
(* returned, and the message names the position of the failing series      *)
(* exactly when more than one series was supplied.                         *)
(***************************************************************************)
\* Rows series j (from 1) has left after filtering and capping.
FinalRows(j) == Len(KeepRecentRows(df_X_y(target_series[j], j - 1).rows))

C6_EmptySampleError ==
    /\ pc = "raised" =>
          /\ FinalRows(idx + 1) = 0
          /\ \A j \in 1..idx : FinalRows(j) > 0
          /\ X = <<>> /\ y = <<>>
          /\ message[1] = "Unable to build any training samples of the target series"
          /\ Len(target_series) > 1 => message = <<message[1], "at index", idx>>
          /\ Len(target_series) = 1 => message = <<message[1]>>
    /\ pc = "returned" =>
          /\ \A j \in 1..Len(target_series) : FinalRows(j) > 0
          /\ message = <<>>
    /\ pc = "loop" /\ ~Malformed =>
          /\ \A j \in 1..idx : FinalRows(j) > 0
          /\ message = <<>>
    /\ pc = "aligned" /\ FinalRows(idx + 1) = 0 => ENABLED RaiseEmpty /\ ~ENABLED SplitSeries

C6_Witness ==
    /\ pc = "raised"
    /\ Len(target_series) = 2
    /\ idx = 1
    /\ message = <<"Unable to build any training samples of the target series",
                   "at index", 1>>

C6_WitnessSingle ==
    /\ pc = "raised"
    /\ Len(target_series) = 1
    /\ Len(message) = 1

(***************************************************************************)
(* C7: for series S1..Sk the returned timestamp list has k elements, the   *)
(* j-th being the retained index of Sj, and the rows of X and y are the    *)
(* rows of S1, then of S2, ..., each block in chronological order.         *)
(***************************************************************************)
RECURSIVE SumLenUpTo(_, _)
SumLenUpTo(ss, j) == IF j = 0 THEN 0 ELSE Len(ss[j]) + SumLenUpTo(ss, j - 1)

C7_SeriesOrder ==
    pc = "returned" =>
        /\ Len(Ts) = Len(target_series)
        /\ Len(X) = SumLen(Ts)
        /\ Len(y) = SumLen(Ts)
        /\ \A j \in 1..Len(Ts) :
              /\ Ts[j] = KeepRecentIndex(df_X_y(target_series[j], j - 1).index)
              /\ Range(Ts[j]) \subseteq SeriesIndex(target_series[j])
              /\ Increasing(Ts[j])
              /\ \A r \in 1..Len(Ts[j]) :
                    LET row == SumLenUpTo(Ts, j - 1) + r
                    IN /\ X[row] = Xs[j][r]
                       /\ y[row] = ys[j][r]
                       /\ \A c \in 1..Len(X[row]) : SeriesOf(X[row][c]) = j
                       /\ Len(lags) > 0 =>
                             X[row][1] = ValueAt(target_series[j], Ts[j][r] + lags[1], 1)
                       /\ y[row][1] = ValueAt(target_series[j], Ts[j][r], 1)

C7_Witness ==
    /\ pc = "returned"
    /\ Len(target_series) = 2
    /\ Len(Ts[1]) = 3
    /\ Len(Ts[2]) = 2
    /\ Len(X) = 5

(***************************************************************************)
(* _add_static_covariates, called on the X the builder returned, with the  *)
(* same series, covariates, horizon and max_samples_per_ts, and with the   *)
(* extremes of the same lag lists.                                         *)
(***************************************************************************)
features == X

min_target_lag == IF Len(lags) = 0 THEN None ELSE SetMin(Range(lags))

min_past_cov_lag ==
    IF Len(lags_past_covariates) = 0 THEN None
    ELSE SetMin(Range(lags_past_covariates))

min_future_cov_lag ==
    IF Len(lags_future_covariates) = 0 THEN None
    ELSE SetMin(Range(lags_future_covariates))

max_future_cov_lag ==
    IF Len(lags_future_covariates) = 0 THEN None
    ELSE SetMax(Range(lags_future_covariates))

max_past_lag ==
    SetMax({Abs(v) : v \in {min_target_lag, min_past_cov_lag, min_future_cov_lag}
                            \ {None}})

len_target_features(i) ==
    Len(target_series[i + 1].values) - max_past_lag - (output_chunk_length - 1)

len_past_cov_features(i) ==
    IF Len(past_covariates) > 0
    THEN Len(past_covariates[i + 1].values) - max_past_lag
    ELSE None

len_future_cov_features(i) ==
    IF Len(future_covariates) > 0
    THEN Len(future_covariates[i + 1].values) - max_past_lag - max_future_cov_lag
    ELSE None

len_shortest_features(i) ==
    SetMin({len_target_features(i), len_past_cov_features(i),
            len_future_cov_features(i)} \ {None})

\* The number of times the static row of the series at i is repeated.
reps_of(i) ==
    IF max_samples_per_ts # None THEN max_samples_per_ts
    ELSE len_shortest_features(i)

\* len(future_covariates[idx]) - max_past_lag - None is a TypeError.
LengthTypeError == Len(future_covariates) > 0 /\ max_future_cov_lag = None

NameOrders(S) ==
    {f \in [1..Cardinality(S) -> S] : \A a, b \in DOMAIN f : f[a] = f[b] => a = b}

\* df.reindex(col_names, axis=1, fill_value=0.0)
reindex_columns(df, names) ==
    [r \in 1..Len(df.values) |->
        [k \in 1..Len(names) |->
            IF \E c \in 1..Len(df.columns) : df.columns[c] = names[k]
            THEN df.values[r][CHOOSE c \in 1..Len(df.columns) :
                                 df.columns[c] = names[k]]
            ELSE 0]]

\* values.reshape(1, -1, order="F"): column after column.
reshape_F(values) ==
    IF Len(values) = 0 THEN <<>>
    ELSE LET nrows == Len(values)
             ncols == Len(values[1])
         IN [p \in 1..(nrows * ncols) |->
                values[((p - 1) % nrows) + 1][((p - 1) \div nrows) + 1]]

\* np.tile(row, reps=(n, 1)): an array of shape (n, len(row)).
np_tile(row, n) == [shape |-> <<n, Len(row)>>, rows |-> [r \in 1..n |-> row]]

df_empty(df) == ~df.exists \/ Len(df.columns) = 0 \/ Len(df.values) = 0

\* The block of static covariates of the series at i.
static_block(i) ==
    LET df == scovs_map.df[i + 1]
        n_comps == n_components(target_series[1])
    IN IF ~df_empty(df)
       THEN np_tile(reshape_F(reindex_columns(df, col_names)), scovs_map.reps[i + 1])
       ELSE np_tile([k \in 1..(Len(col_names) * n_comps) |-> 0],
                    scovs_map.reps[i + 1])

BlocksStack ==
    \A i, j \in 1..Len(static_covs) :
        static_covs[i].shape[2] = static_covs[j].shape[2]

StackedStatic == Flatten([i \in 1..Len(static_covs) |-> static_covs[i].rows])

CallAppender ==
    /\ pc = "returned"
    /\ pc' = "collect"
    /\ idx' = 0
    /\ UNCHANGED <<args, Xs, ys, Ts, X_y, X, y, message, appender>>

\* Lines 233-273: one series of the loop that collects static covariates info.
CollectStatic ==
    /\ pc = "collect"
    /\ idx < Len(target_series)
    /\ ~LengthTypeError
    /\ LET ts == target_series[idx + 1]
       IN scovs_map' =
            [covs_exist |-> scovs_map.covs_exist \/ ts.static_covariates.exists,
             df |-> Append(scovs_map.df, ts.static_covariates),
             reps |-> Append(scovs_map.reps, reps_of(idx)),
             names |-> scovs_map.names \cup Range(ts.static_covariates.columns)]
    /\ idx' = idx + 1
    /\ UNCHANGED <<args, pc, Xs, ys, Ts, X_y, X, y, message,
                   n_features_in_, col_names, static_covs, result>>

\* hasattr(model, "n_features_in_") and model.n_features_in_ is not None
\* and model.n_features_in_ > features.shape[1]
NeedsPadding ==
    /\ n_features_in_ # Absent
    /\ n_features_in_ # None
    /\ n_features_in_ > Len(features[1])

\* As many zeros as the model expects columns.
pad_zeros_expected_count == [k \in 1..n_features_in_ |-> 0]

\* np.zeros((1, model.n_features_in_ - features.shape[1]))
pad_zeros == [k \in 1..(n_features_in_ - Len(features[1])) |-> 0]

\* Lines 275-285: no static covariates, the model expects more columns.
PadFeatures ==
    /\ pc = "collect"
    /\ idx = Len(target_series)
    /\ ~scovs_map.covs_exist
    /\ NeedsPadding
    /\ result' = [r \in 1..Len(features) |-> features[r] \o pad_zeros]
    /\ pc' = "done"
    /\ UNCHANGED <<args, idx, Xs, ys, Ts, X_y, X, y, message,
                   n_features_in_, scovs_map, col_names, static_covs>>

\* Lines 286-287: no static covariates, features returned as they are.
ReturnFeatures ==
    /\ pc = "collect"
    /\ idx = Len(target_series)
    /\ ~scovs_map.covs_exist
    /\ ~NeedsPadding
    /\ result' = features
    /\ pc' = "done"
    /\ UNCHANGED <<args, idx, Xs, ys, Ts, X_y, X, y, message,
                   n_features_in_, scovs_map, col_names, static_covs>>

\* Line 292: list(set) gives the names in some order.
ListNames ==
    /\ pc = "collect"
    /\ idx = Len(target_series)
    /\ scovs_map.covs_exist
    /\ col_names' \in NameOrders(scovs_map.names)
    /\ idx' = 0
    /\ pc' = "tile"
    /\ UNCHANGED <<args, Xs, ys, Ts, X_y, X, y, message,
                   n_features_in_, scovs_map, static_covs, result>>

\* Lines 294-304: the static block of one series.
TileStatic ==
    /\ pc = "tile"
    /\ idx < Len(target_series)
    /\ scovs_map.reps[idx + 1] >= 0
    /\ static_covs' = Append(static_covs, static_block(idx))
    /\ idx' = idx + 1
    /\ UNCHANGED <<args, pc, Xs, ys, Ts, X_y, X, y, message,
                   n_features_in_, scovs_map, col_names, result>>

\* Lines 305-308: stack the blocks and put them to the right of features.
AppendStatic ==
    /\ pc = "tile"
    /\ idx = Len(target_series)
    /\ BlocksStack
    /\ Len(StackedStatic) = Len(features)
    /\ result' = [r \in 1..Len(features) |-> features[r] \o StackedStatic[r]]
    /\ pc' = "done"
    /\ UNCHANGED <<args, idx, Xs, ys, Ts, X_y, X, y, message,
                   n_features_in_, scovs_map, col_names, static_covs>>

\* The exceptions of the appender: the TypeError of the length computation,
\* np.tile with a negative count, np.concatenate of arrays whose shapes do
\* not agree.
AppenderRaises ==
    /\ IF pc = "collect"
       THEN idx < Len(target_series) /\ LengthTypeError
       ELSE /\ pc = "tile"
            /\ IF idx < Len(target_series)
               THEN scovs_map.reps[idx + 1] < 0
               ELSE ~BlocksStack \/ Len(StackedStatic) # Len(features)
    /\ pc' = "appender_crashed"
    /\ UNCHANGED <<args, idx, Xs, ys, Ts, X_y, X, y, message, appender>>

AppenderNext ==
    \/ CallAppender
    \/ CollectStatic
    \/ PadFeatures
    \/ ReturnFeatures
    \/ ListNames
    \/ TileStatic
    \/ AppendStatic
    \/ AppenderRaises

Next == BuilderNext \/ AppenderNext

(***************************************************************************)
(* Calls of the builder followed by the appender.                          *)
(***************************************************************************)
StaticValue(s, row, name) ==
    5000 + 100 * (s - 1) + 10 * (row - 1)
    + (IF name = "A" THEN 1 ELSE IF name = "B" THEN 2 ELSE 3)

\* A static table of one row with the attributes names, for series s.
OneRowTable(s, names) ==
    StaticTable(names, <<[k \in 1..Len(names) |-> StaticValue(s, 1, names[k])]>>)

StaticChoices(s) ==
    {NoStatic, OneRowTable(s, <<"A">>), OneRowTable(s, <<"B", "A">>)}

\* A static table of one row per component, for series s.
PerComponentTable(s, names, ncomp) ==
    StaticTable(names, [row \in 1..ncomp |->
                          [k \in 1..Len(names) |-> StaticValue(s, row, names[k])]])

\* The static covariates of a series of two components: none, one row for
\* the series, one row per component.
ComponentStaticChoices(s) ==
    {NoStatic, OneRowTable(s, <<"A">>), PerComponentTable(s, <<"A">>, 2),
     PerComponentTable(s, <<"B", "A">>, 2)}

WithStatic(ts, table) == [ts EXCEPT !.static_covariates = table]

\* <<length, missing cells>> of a target series.
StaticShapes == {<<MaxLenMulti - 1, {}>>, <<MaxLenMulti, {<<1, 1>>}>>}

Init ==
    \/ \E n \in 1..MaxSeries :
       \E shape \in [1..n -> StaticShapes] :
       \E table \in [1..n -> StaticChoices(1)] :
       \E ll \in {<<<<-1>>, 1>>, <<<<-2, -1>>, 1>>, <<<<-1>>, 2>>},
          training \in BOOLEAN, cap \in Caps :
          /\ \E s \in 1..n : table[s].exists
          /\ InitCall(Call([s \in 1..n |->
                              WithStatic(MkSeries(0, s, 0, shape[s][1], 1, shape[s][2]),
                                         table[s])],
                           <<>>, <<>>, ll[1], <<>>, <<>>,
                           <<<<ll[2], TRUE>>, training>>, cap))
    \/ \E n \in 1..MaxSeries :
       \E shape \in [1..n -> StaticShapes] :
       \E ll \in {<<<<-1>>, 1>>, <<<<-2, -1>>, 1>>},
          n_features \in {Absent, None} \cup 1..(MaxLen + 1), cap \in {None, 1} :
          InitModelCall(Call([s \in 1..n |->
                                MkSeries(0, s, 0, shape[s][1], 1, shape[s][2])],
                             <<>>, <<>>, ll[1], <<>>, <<>>,
                             <<<<ll[2], TRUE>>, TRUE>>, cap),
                        n_features)
    \/ \E p \in CovSeriesFew(1) \cup {MkSeries(1, 1, 0, MaxLen + 1, 1, {})},
          f \in CovSeriesFew(2) \cup {MkSeries(2, 1, 0, MaxLen + 1, 1, {})} :
       \E ll \in {<<<<-1>>, <<-1>>, <<0, 1>>>>, <<<<>>, <<-2>>, <<1, 2>>>>,
                  <<<<-1>>, <<>>, <<-1>>>>},
          training \in BOOLEAN :
          InitCall(Call(<<WithStatic(MkSeries(0, 1, 0, MaxLen, 1, {}),
                                     OneRowTable(1, <<"A">>))>>,
                        <<p>>, <<f>>, ll[1], ll[2], ll[3],
                        <<<<1, TRUE>>, training>>, None))
    \/ \E n \in 1..MaxSeries :
       \E table \in [1..n -> UNION {ComponentStaticChoices(s) : s \in 1..n}] :
          /\ \A s \in 1..n : table[s] \in ComponentStaticChoices(s)
          /\ InitCall(Call([s \in 1..n |->
                              WithStatic(MkSeries(0, s, 0, MaxLen, 2, {}), table[s])],
                           <<>>, <<>>, <<-1>>, <<>>, <<>>,
                           <<<<1, TRUE>>, TRUE>>, None))
    \/ \E table \in StaticChoices(1), lp \in {<<>>, <<-1>>} :
          InitCall(Call(<<WithStatic(MkSeries(0, 1, 0, MaxLen, 1, {}), table)>>,
                        <<>>, <<>>, <<>>, lp, <<>>,
                        <<<<1, TRUE>>, TRUE>>, None))

Spec == Init /\ [][Next]_vars

(***************************************************************************)
(* C9: without max_samples_per_ts, the row count the appender recomputes   *)
(* for a series equals the number of rows the builder contributed for      *)
(* that series.  Stated for the calls in training mode.                    *)
(***************************************************************************)
C9_RecomputedRowCount ==
    max_samples_per_ts = None /\ is_training =>
        \A j \in 1..Len(scovs_map.reps) : scovs_map.reps[j] = Len(Xs[j])

(***************************************************************************)
(* C10: with max_samples_per_ts and static covariates in some series, the  *)
(* appender repeats the static row of each series once per row the series  *)
(* contributed to X, so the stacked static block has as many rows as X.    *)
(***************************************************************************)
C10_TiledPerFeatureRow ==
    max_samples_per_ts # None /\ scovs_map.covs_exist =>
        /\ \A j \in 1..Len(static_covs) : static_covs[j].shape[1] = Len(Xs[j])
        /\ pc = "tile" /\ idx = Len(target_series) =>
              Len(StackedStatic) = Len(X)

(***************************************************************************)
(* C11: when some series carries static covariates, the block built for    *)
(* every series is (number of names in the union) x (component count)      *)
(* columns wide, whether the static table has one row or one row per       *)
(* component; the columns of an attribute the series lacks and all columns *)
(* of a series without static covariates hold zero; there is one block per *)
(* series, and the returned array is X with these columns to its right.    *)
(* For two single-component series, the first with attribute A, the second *)
(* with none, X gains one column, zero in the rows of the second series.   *)
(***************************************************************************)
StaticWidth == Cardinality(scovs_map.names) * n_components(target_series[1])

HasAttribute(table, name) ==
    table.exists /\ \E c \in 1..Len(table.columns) : table.columns[c] = name

AttributeOf(table, row, name) ==
    table.values[row][CHOOSE c \in 1..Len(table.columns) : table.columns[c] = name]

\* The block of series j: its width, and its cells, attribute after
\* attribute and within an attribute component after component.
BlockAsClaimed(j) ==
    LET block == static_covs[j]
        table == target_series[j].static_covariates
        nc == n_components(target_series[1])
    IN /\ block.shape[2] = StaticWidth
       /\ \A r \in 1..Len(block.rows) :
            /\ Len(block.rows[r]) = StaticWidth
            /\ \A k \in 1..Len(col_names) : \A c \in 1..nc :
                  LET cell == block.rows[r][(k - 1) * nc + c]
                  IN IF ~HasAttribute(table, col_names[k]) THEN cell = 0
                     ELSE Len(table.values) = nc =>
                            cell = AttributeOf(table, c, col_names[k])

ReturnedAsClaimed ==
    pc = "done" =>
        /\ Len(result) = Len(X)
        /\ \A r \in 1..Len(X) :
              /\ Len(result[r]) = Len(X[r]) + StaticWidth
              /\ SubSeq(result[r], 1, Len(X[r])) = X[r]

\* Two single-component series, the first with attribute A, the second
\* without static covariates, after the appender returned.
OneWithOneWithoutCase ==
    /\ pc = "done"
    /\ Len(target_series) = 2
    /\ n_components(target_series[1]) = 1
    /\ target_series[1].static_covariates.exists
    /\ target_series[1].static_covariates.columns = <<"A">>
    /\ ~target_series[2].static_covariates.exists

GainsOneColumn ==
    \A r \in 1..Len(result) :
        /\ Len(result[r]) = Len(X[r]) + 1
        /\ result[r][Len(result[r])] =
              (IF r <= Len(Xs[1]) THEN StaticValue(1, 1, "A") ELSE 0)

StaticColumnsAsClaimed ==
    scovs_map.covs_exist =>
        /\ \A j \in 1..Len(static_covs) : BlockAsClaimed(j)
        /\ pc = "tile" /\ idx = Len(target_series) =>
              Len(static_covs) = Len(target_series)
        /\ ReturnedAsClaimed
        /\ OneWithOneWithoutCase => GainsOneColumn

C11_StaticColumns == StaticColumnsAsClaimed

\* The same statement for the calls in which every static table has one
\* row per component.
OneRowPerComponent ==
    \A j \in 1..Len(target_series) :
        target_series[j].static_covariates.exists =>
            Len(target_series[j].static_covariates.values)
                = n_components(target_series[1])

C11_WhenOneRowPerComponent == OneRowPerComponent => StaticColumnsAsClaimed

C11_WitnessPerComponent ==
    /\ pc = "done"
    /\ OneRowPerComponent
    /\ Len(target_series) = 2
    /\ n_components(target_series[1]) = 2
    /\ Cardinality(scovs_map.names) = 2
    /\ Len(target_series[1].static_covariates.columns) = 2
    /\ Len(target_series[2].static_covariates.columns) = 1
    /\ target_series[2].static_covariates.exists

C11_WitnessOneWithOneWithout ==
    /\ OneWithOneWithoutCase
    /\ Len(result) >= 2

\* One series with a one-row table, one without static covariates, two
\* components, every count of rows as the builder's: the blocks do not stack.
C11_WitnessBlocksDoNotStack ==
    /\ pc = "appender_crashed"
    /\ ~BlocksStack
    /\ Len(static_covs) = 2
    /\ \A j \in 1..2 : static_covs[j].shape[1] = Len(Xs[j])
    /\ static_covs[1].shape[2] = 1
    /\ static_covs[2].shape[2] = 2

(***************************************************************************)
(* C12: when no series carries static covariates, the appender returns X   *)
(* unchanged unless the model has an expected feature count that is        *)
(* greater than the column count of X; then it returns X with zero columns *)
(* to the right up to the expected count, the original columns and the row *)
(* count unchanged.  An absent, null, equal or smaller count leaves X      *)
(* unchanged.                                                              *)
(***************************************************************************)
ExpectsMore ==
    n_features_in_ \notin {Absent, None} /\ n_features_in_ > Len(X[1])

PaddedToExpected ==
    /\ Len(result) = Len(X)
    /\ \A r \in 1..Len(X) :
          /\ Len(result[r]) = n_features_in_
          /\ SubSeq(result[r], 1, Len(X[r])) = X[r]
          /\ \A k \in (Len(X[r]) + 1)..n_features_in_ : result[r][k] = 0

C12_NoStaticPadding ==
    pc = "done" /\ ~scovs_map.covs_exist =>
        IF ExpectsMore THEN PaddedToExpected ELSE result = X

C12_Witness ==
    /\ pc = "done"
    /\ ~scovs_map.covs_exist
    /\ Len(target_series) = 2
    /\ Len(X) = 2
    /\ Len(X[1]) = 2
    /\ n_features_in_ = 4
    /\ result[2] = X[2] \o <<0, 0>>

C12_WitnessUnchanged ==
    /\ pc = "done"
    /\ ~scovs_map.covs_exist
    /\ n_features_in_ \in {Absent, None, 1, 2}
    /\ Len(X[1]) = 2
    /\ result = X

(***************************************************************************)
(* C13: with multi_models false, y has one block of target-component       *)
(* columns holding the target's value output_chunk_length - 1 steps after  *)
(* the row's timestamp.  Compared with the table the builder makes of the  *)
(* same inputs with multi_models true (no sample cap): the timestamps and  *)
(* X are the same and y is the last horizon block of the multi-step y.     *)
(***************************************************************************)
\* The table of the same call with multi_models true.
MultiStepTable == df_X_y_of(target_series[1], 0, TRUE)

XWidth == Len(df_X(target_series[1], 0).columns)

\* The last horizon block of a row of the multi-step table.
LastHorizonBlock(row) ==
    LET nc == n_components(target_series[1])
    IN SubSeq(row, XWidth + (output_chunk_length - 1) * nc + 1,
              XWidth + output_chunk_length * nc)

SingleStepCase ==
    /\ pc = "returned"
    /\ ~multi_models
    /\ Len(target_series) = 1
    /\ max_samples_per_ts = None

OneBlockAtLastStep ==
    LET ts == target_series[1]
        nc == n_components(ts)
    IN /\ Len(y) = Len(Ts[1])
       /\ \A r \in 1..Len(y) :
            /\ Len(y[r]) = nc
            /\ \A c \in 1..nc :
                  y[r][c] = ValueAt(ts, Ts[1][r] + output_chunk_length - 1, c)

\* The same, with a missing value in the rows whose timestamp is not one of
\* the target's (rows of a covariate frame, inference mode).
OneBlockAtLastStepOfTargetRows ==
    LET ts == target_series[1]
        nc == n_components(ts)
    IN /\ Len(y) = Len(Ts[1])
       /\ \A r \in 1..Len(y) :
            /\ Len(y[r]) = nc
            /\ \A c \in 1..nc :
                  y[r][c] =
                    (IF Ts[1][r] \in SeriesIndex(ts)
                     THEN ValueAt(ts, Ts[1][r] + output_chunk_length - 1, c)
                     ELSE NaN)

SameAsMultiStep ==
    LET table == MultiStepTable
    IN /\ Ts[1] = table.index
       /\ X = SplitLeft(table.rows, XWidth)
       /\ y = [r \in 1..Len(table.rows) |-> LastHorizonBlock(table.rows[r])]

\* Every row of the multi-step table is retained, with the same X and the
\* last horizon block as y.
ContainsMultiStep ==
    LET table == MultiStepTable
    IN \A q \in 1..Len(table.index) :
          \E r \in 1..Len(Ts[1]) :
              /\ Ts[1][r] = table.index[q]
              /\ X[r] = SubSeq(table.rows[q], 1, XWidth)
              /\ y[r] = LastHorizonBlock(table.rows[q])

\* No retained row has a missing target value at a horizon step before the
\* last one.
EarlierStepsPresent ==
    \A r \in 1..Len(Ts[1]) : \A k \in 0..(output_chunk_length - 2) :
        \A c \in 1..n_components(target_series[1]) :
            ValueAt(target_series[1], Ts[1][r] + k, c) # NaN

\* The claim as stated.
C13_AsStated == SingleStepCase => OneBlockAtLastStep /\ SameAsMultiStep

\* Amended: the rows are those of the multi-step table in inference mode
\* and, in training mode, exactly when no retained row misses a target
\* value at an earlier horizon step; they always contain them.
C13_SingleStepTargets ==
    SingleStepCase =>
        /\ OneBlockAtLastStepOfTargetRows
        /\ ContainsMultiStep
        /\ SameAsMultiStep <=> (is_training => EarlierStepsPresent)

C13_Witness ==
    /\ SingleStepCase
    /\ is_training
    /\ output_chunk_length = 2
    /\ lags = <<-1>>
    /\ Len(Ts[1]) = 1
    /\ ~EarlierStepsPresent
    /\ Len(MultiStepTable.index) = 0

C13_WitnessSame ==
    /\ SingleStepCase
    /\ is_training
    /\ output_chunk_length = 2
    /\ Len(Ts[1]) >= 1
    /\ Len(lags_past_covariates) > 0
    /\ SameAsMultiStep
    /\ \E i \in 1..Len(target_series[1].values) :
          target_series[1].values[i][1] = NaN

(***************************************************************************)
(* C14: in inference mode every retained row with timestamp t holds, in    *)
(* the column of covariate lag L, the covariate's value at timestamp       *)
(* t + L, wherever the covariate index starts and ends, also when it is    *)
(* disjoint from the target index; and a row of the target index whose     *)
(* target-lag cells are present and whose covariate values at t + L all    *)
(* exist is retained.                                                      *)
(***************************************************************************)
\* The columns before the group of past covariates and of future covariates.
PastOffset(i) == Len(lags) * n_components(target_series[i])

FutureOffset(i) ==
    PastOffset(i)
    + (IF Len(lags_past_covariates) > 0
       THEN Len(lags_past_covariates) * n_components(past_covariates[i]) ELSE 0)

\* The cells of one covariate group of row, a row at timestamp t.
GroupByTimestamp(row, t, cov, lags_cov, offset) ==
    \A j \in 1..Len(lags_cov) : \A c \in 1..n_components(cov) :
        row[offset + (j - 1) * n_components(cov) + c]
            = ValueAt(cov, t + lags_cov[j], c)

\* The covariate has a value at every timestamp t + L.
ValuesExist(cov, lags_cov, t) ==
    \A j \in 1..Len(lags_cov) : \A c \in 1..n_components(cov) :
        ValueAt(cov, t + lags_cov[j], c) # NaN

CovariateValuesExist(i, t) ==
    /\ Len(lags_past_covariates) > 0 =>
          ValuesExist(past_covariates[i], lags_past_covariates, t)
    /\ Len(lags_future_covariates) > 0 =>
          ValuesExist(future_covariates[i], lags_future_covariates, t)

CovariateLagsByTimestamp ==
    LET i == idx + 1
    IN \A r \in 1..Len(X_y) :
          /\ Len(lags_past_covariates) > 0 =>
                GroupByTimestamp(X_y[r], Ts[i][r], past_covariates[i],
                                 lags_past_covariates, PastOffset(i))
          /\ Len(lags_future_covariates) > 0 =>
                GroupByTimestamp(X_y[r], Ts[i][r], future_covariates[i],
                                 lags_future_covariates, FutureOffset(i))

CompleteRowsRetained ==
    LET i == idx + 1
    IN \A t \in SeriesIndex(target_series[i]) :
          LagCellsPresent(target_series[i], lags, t) /\ CovariateValuesExist(i, t)
              => t \in Range(Ts[i])

InferenceCase ==
    /\ pc = "aligned"
    /\ ~is_training
    /\ Len(lags_past_covariates) + Len(lags_future_covariates) > 0

C14_InferenceCovariates ==
    InferenceCase => CovariateLagsByTimestamp /\ CompleteRowsRetained

\* The timestamps of the reindexed covariate frames have no gap.
Contiguous(S) == \A t \in S : t = SetMax(S) \/ t + 1 \in S

UnionsContiguous ==
    LET i == idx + 1
    IN /\ Len(lags_past_covariates) > 0 =>
             Contiguous(SeriesIndex(target_series[i])
                        \cup SeriesIndex(past_covariates[i]))
       /\ Len(lags_future_covariates) > 0 =>
             Contiguous(SeriesIndex(target_series[i])
                        \cup SeriesIndex(future_covariates[i]))

\* The same statement for the calls in which the union of the target index
\* and each covariate index has no gap.
C14_WhenUnionsContiguous ==
    InferenceCase /\ UnionsContiguous =>
        CovariateLagsByTimestamp /\ CompleteRowsRetained

\* The covariate ends before the target's last timestamps and starts
\* before the target: the rows up to its end are retained.
C14_WitnessShorterCovariate ==
    /\ InferenceCase
    /\ UnionsContiguous
    /\ lags = <<-1>>
    /\ lags_past_covariates = <<-1>>
    /\ past_covariates[1].start = -1
    /\ Len(past_covariates[1].values) = MaxLen - 1
    /\ Len(target_series[1].values) = MaxLen
    /\ 1 \in Range(Ts[1])

\* The covariate index is disjoint from the target index, with a gap.
C14_WitnessDisjoint ==
    /\ InferenceCase
    /\ ~UnionsContiguous
    /\ SeriesIndex(target_series[1]) \cap SeriesIndex(past_covariates[1]) = {}
    /\ Len(Ts[1]) >= 1
    /\ ~CovariateLagsByTimestamp

====
